---- MODULE Spec2Model ----
(***************************************************************************)
(* Minneapolis snow emergency bot (src/mpls_snow_emergency_bot.py).        *)
(*                                                                         *)
(* The model covers the day calculation from a declaration date, the       *)
(* backward declaration-date calculation, the notification embed, the      *)
(* periodic check cycle with its shared current_status, the commands       *)
(* !snowstatus and !snowhelp, and the interleaving of the coroutines.      *)
(*                                                                         *)
(* Spec      the check cycle, one cycle a step, the clock advancing.       *)
(* SpecCalc  the day calculation applied to a declaration date.            *)
(* SpecDate  the declaration date calculated from a day, and back.         *)
(* SpecExtract the declaration date taken from the text of a page.         *)
(* SpecEval  the check and !snowstatus applied to the same pages.          *)
(* SpecAsync the coroutines, one step from an await to the next.           *)
(*                                                                         *)
(* Time: a datetime is the number of seconds since 2025-01-01 00:00:00     *)
(* (naive local time, as datetime.now() gives it).  A date string in the   *)
(* "%B %d, %Y" format is a record [month, day, year]; strptime and         *)
(* strftime convert between the two through the civil calendar.            *)
(***************************************************************************)
EXTENDS Integers, Sequences, FiniteSets, TLC

VARIABLES
    now,             \* the wall clock: what datetime.now() returns
    current_status,  \* the module-level dict current_status
    CHANNEL_ID,      \* int(os.getenv("DISCORD_CHANNEL_ID", 0)), fixed at start
    last_alert,      \* the last "SNOW EMERGENCY DECLARED" message in the channel
    cycle,           \* what the latest check cycle read, decided and sent
    calc,            \* argument and result of a direct day calculation
    eval,            \* pages read at one instant and what both triggers make of them
    tasks            \* the coroutines on the event loop: where each is suspended

vars == <<now, current_status, CHANNEL_ID, last_alert, cycle, calc, eval, tasks>>

\* Python's None.
None == "None"

(***************************************************************************)
(* Bounds of the model.                                                    *)
(***************************************************************************)
\* Number of calendar days the clock may range over, from FirstDay on.
MaxDays == 3

\* Number of calendar days a declaration date given directly to the day
\* calculation may range over, from FirstDay on.
MaxDeclDays == 2

\* Number of instants of the clock a check cycle may lie ahead of the one
\* before it.
MaxAhead == 2

(***************************************************************************)
(* Calendar: datetime, strftime("%B %d, %Y"), strptime, timedelta.         *)
(***************************************************************************)
MonthNames ==
    <<"January", "February", "March", "April", "May", "June", "July",
      "August", "September", "October", "November", "December">>

IsLeap(y) == (y % 4 = 0 /\ y % 100 # 0) \/ y % 400 = 0

DaysInMonth(y, m) ==
    IF m = 2 THEN (IF IsLeap(y) THEN 29 ELSE 28)
    ELSE IF m \in {4, 6, 9, 11} THEN 30 ELSE 31

DaysInYear(y) == IF IsLeap(y) THEN 366 ELSE 365

RECURSIVE DaysBeforeMonth(_, _)
DaysBeforeMonth(y, m) ==
    IF m = 1 THEN 0 ELSE DaysBeforeMonth(y, m - 1) + DaysInMonth(y, m - 1)

RECURSIVE DaysBeforeYear(_)
DaysBeforeYear(y) ==
    IF y <= 2025 THEN 0 ELSE DaysBeforeYear(y - 1) + DaysInYear(y - 1)

\* Days from 2025-01-01 to the civil date y-m-d.
ToOrdinal(y, m, d) == DaysBeforeYear(y) + DaysBeforeMonth(y, m) + (d - 1)

RECURSIVE YearOfOrdinal(_, _)
YearOfOrdinal(n, y) ==
    IF n < DaysBeforeYear(y + 1) THEN y ELSE YearOfOrdinal(n, y + 1)

RECURSIVE MonthOfOrdinal(_, _, _)
MonthOfOrdinal(n, y, m) ==
    IF n < DaysBeforeYear(y) + DaysBeforeMonth(y, m) + DaysInMonth(y, m)
    THEN m ELSE MonthOfOrdinal(n, y, m + 1)

SecondsPerHour == 60 * 60
SecondsPerDay == 24 * SecondsPerHour

\* The years and the days (counted from 2025-01-01) the model's dates lie in.
CalendarYears == {2025, 2026}
CalendarOrdinals == 0 .. (DaysBeforeYear(2027) - 1)

\* The civil date of every day of the calendar, computed once.
DateOfOrdinal ==
    [n \in CalendarOrdinals |->
        LET y == YearOfOrdinal(n, 2025)
            m == MonthOfOrdinal(n, y, 1)
        IN  [month |-> MonthNames[m],
             day   |-> n - (DaysBeforeYear(y) + DaysBeforeMonth(y, m)) + 1,
             year  |-> y]]

\* The day number of the first of every month, computed once.
FirstOfMonth == [y \in CalendarYears |-> [m \in 1..12 |-> ToOrdinal(y, m, 1)]]

\* datetime.strftime("%B %d, %Y"): the civil date of an instant as text.
strftime(dt) == DateOfOrdinal[dt \div SecondsPerDay]

\* The month a full month name ("%B") stands for.
MonthNumber ==
    [name \in {MonthNames[m] : m \in 1..12} |->
        CHOOSE m \in 1..12 : MonthNames[m] = name]

\* datetime.strptime(s, "%B %d, %Y") raises ValueError for text that is no
\* date of the calendar.
strptime_raises(s) ==
    \/ s.month \notin DOMAIN MonthNumber
    \/ s.day < 1
    \/ s.day > DaysInMonth(s.year, MonthNumber[s.month])

\* datetime.strptime(s, "%B %d, %Y"): midnight of the date.
strptime(s) ==
    (FirstOfMonth[s.year][MonthNumber[s.month]] + (s.day - 1)) * SecondsPerDay

\* dt.replace(hour=h, minute=0, second=0, microsecond=0)
replace_hour(dt, h) == (dt \div SecondsPerDay) * SecondsPerDay + h * SecondsPerHour

\* dt + timedelta(days=k)
plus_days(dt, k) == dt + k * SecondsPerDay

(***************************************************************************)
(* DATE CALCULATION                                                        *)
(***************************************************************************)
\* Hours of the timeline boundaries.
Day1StartHour == 21
Day2StartHour == 8
Day3StartHour == 8
Day3EndHour == 20

\* Variants with one boundary moved.
day1_start_at_20(declaration_date) == replace_hour(declaration_date, Day3EndHour)
day3_start_next_day(declaration_date) ==
    replace_hour(plus_days(declaration_date, 1), Day3StartHour)
day2_start_at_21(declaration_date) ==
    replace_hour(plus_days(declaration_date, 1), Day1StartHour)

day1_start(declaration_date) == replace_hour(declaration_date, Day1StartHour)
day2_start(declaration_date) ==
    replace_hour(plus_days(declaration_date, 1), Day2StartHour)
day3_start(declaration_date) ==
    replace_hour(plus_days(declaration_date, 2), Day3StartHour)
day3_end(declaration_date) ==
    replace_hour(plus_days(declaration_date, 2), Day3EndHour)

\* The chain of comparisons of calculate_current_day_from_declaration.
day_of_timeline(declaration_date, t) ==
    LET d1s == day1_start(declaration_date)
        d2s == day2_start(declaration_date)
        d3s == day3_start(declaration_date)
        d3e == day3_end(declaration_date)
    IN  IF t < d1s THEN None
        ELSE IF d1s <= t /\ t < d2s THEN "1"
        ELSE IF d2s <= t /\ t < d3s THEN "2"
        ELSE IF d3s <= t /\ t <= d3e THEN "3"
        ELSE None

\* calculate_current_day_from_declaration(declaration_date_str), with the
\* instant datetime.now() returns passed as t.  Any exception gives None.
calculate_current_day_from_declaration(declaration_date_str, t) ==
    IF strptime_raises(declaration_date_str) THEN None
    ELSE day_of_timeline(strptime(declaration_date_str), t)

\* int(s) for the strings that are decimal integers.
int ==
    [s \in {"-1", "0", "1", "2", "3", "4", "10"} |->
        CASE s = "-1" -> 0 - 1
          [] s = "0"  -> 0
          [] s = "1"  -> 1
          [] s = "2"  -> 2
          [] s = "3"  -> 3
          [] s = "4"  -> 4
          [] s = "10" -> 10]

\* int(s) raises ValueError for any other string.
int_raises(s) == s \notin DOMAIN int

\* What a function that lets ValueError escape gives its caller instead of a
\* date string.
ValueError == [month |-> "ValueError", day |-> 0, year |-> 0]

\* calculate_declaration_date() without its try/except.
calculate_declaration_date_unguarded(current_day, t) ==
    IF current_day \in {None, ""} THEN strftime(t)
    ELSE IF int_raises(current_day) THEN ValueError
    ELSE LET day_num == int[current_day]
         IN  IF day_num = 1 THEN strftime(t)
             ELSE IF day_num = 2 THEN strftime(plus_days(t, -1))
             ELSE IF day_num = 3 THEN strftime(plus_days(t, -2))
             ELSE strftime(t)

\* calculate_declaration_date(current_day), with datetime.now() passed as t:
\* "if not current_day" (None, the empty string), the except clause for a
\* string int() rejects, the chain of comparisons of day_num.
calculate_declaration_date(current_day, t) ==
    IF current_day \in {None, ""} THEN strftime(t)
    ELSE IF int_raises(current_day) THEN strftime(t)
    ELSE LET day_num == int[current_day]
         IN  IF day_num = 1 THEN strftime(t)
             ELSE IF day_num = 2 THEN strftime(plus_days(t, -1))
             ELSE IF day_num = 3 THEN strftime(plus_days(t, -2))
             ELSE strftime(t)

(***************************************************************************)
(* SCRAPERS: the results the three scraping coroutines can return.  A      *)
(* fetched page is described by what the regular expressions and substring *)
(* tests find in it.  An Optional[Dict] is a record with the field ok:     *)
(* ok = FALSE is Python's None, and a key a dict lacks reads as None,      *)
(* as dict.get() does.                                                     *)
(***************************************************************************)
\* The day digits the patterns capture in the pages of the model: any of the
\* three days on the homepage, one on snowmpls.com, one on the details pages.
HomepageDays == {"1", "2", "3"}
SnowmplsDays == {"2"}
DetailsDays == {"3"}

NoDict == [ok |-> FALSE, active |-> FALSE, source |-> None, day |-> None]

\* The result of a coroutine that lets an exception escape.  The scrapers
\* catch every exception, so none of them returns it.
Raised == [ok |-> FALSE, active |-> FALSE, source |-> "exception", day |-> None]

\* A page fetch: it answers with a status other than 200, it raises (network
\* error, timeout), or it returns a page with a phrase found or not and a day
\* number found or not.
FetchFailed == [ok |-> FALSE, raised |-> FALSE, phrase |-> FALSE, day |-> None]
FetchRaised == [ok |-> FALSE, raised |-> TRUE, phrase |-> FALSE, day |-> None]

ProbePages(days) ==
    {FetchFailed, FetchRaised} \cup
    [ok : {TRUE}, raised : {FALSE}, phrase : BOOLEAN, day : days \cup {None}]

\* check_minneapolis_homepage() without its try/except.
check_minneapolis_homepage_unguarded(page) ==
    IF page.raised THEN Raised
    ELSE IF ~page.ok THEN NoDict
    ELSE IF page.phrase
    THEN [ok |-> TRUE, active |-> TRUE, source |-> "minneapolis.gov homepage",
          day |-> page.day]
    ELSE [ok |-> TRUE, active |-> FALSE, source |-> None, day |-> None]

\* check_minneapolis_homepage(): page.phrase is '"snow emergency" in html'.
check_minneapolis_homepage(page) ==
    IF page.raised THEN NoDict
    ELSE IF ~page.ok THEN NoDict
    ELSE IF page.phrase
    THEN [ok |-> TRUE, active |-> TRUE, source |-> "minneapolis.gov homepage",
          day |-> page.day]
    ELSE [ok |-> TRUE, active |-> FALSE, source |-> None, day |-> None]

\* check_snowmpls_com(): page.phrase is '"active" in title.text.lower()'.
check_snowmpls_com(page) ==
    IF page.raised THEN NoDict
    ELSE IF ~page.ok THEN NoDict
    ELSE IF page.phrase
    THEN [ok |-> TRUE, active |-> TRUE, source |-> "snowmpls.com",
          day |-> page.day]
    ELSE [ok |-> TRUE, active |-> FALSE, source |-> None, day |-> None]

HomepageResults ==
    {check_minneapolis_homepage(p) : p \in ProbePages(HomepageDays)}
SnowmplsResults == {check_snowmpls_com(p) : p \in ProbePages(SnowmplsDays)}

\* A date string that is absent (None).
NoDate == [month |-> None, day |-> 0, year |-> 0]

\* The only declaration date the details scraper can return.
November30 == [month |-> "November", day |-> 30, year |-> 2025]

NoDetails == [ok |-> FALSE, day |-> None, declaration_date |-> NoDate]

\* A details page: the fetch answers with a status other than 200, it raises,
\* or it returns a page with a "(Day d)" found or not and "November 30" found
\* or not.
DetailsFetchFailed ==
    [ok |-> FALSE, raised |-> FALSE, day |-> None, nov30 |-> FALSE]
DetailsFetchRaised ==
    [ok |-> FALSE, raised |-> TRUE, day |-> None, nov30 |-> FALSE]

DetailsPages ==
    {DetailsFetchFailed, DetailsFetchRaised} \cup
    [ok : {TRUE}, raised : {FALSE}, day : DetailsDays \cup {None}, nov30 : BOOLEAN]

\* get_snow_emergency_details(): the announcement page first (an exception of
\* its fetch is caught by the inner try), the updates page as the fallback (an
\* exception of its fetch is caught by the outer try).
get_snow_emergency_details(announcement, updates) ==
    IF announcement.ok /\ (announcement.day # None \/ announcement.nov30)
    THEN [ok |-> TRUE, day |-> announcement.day,
          declaration_date |-> IF announcement.nov30 THEN November30 ELSE NoDate]
    ELSE IF updates.raised THEN NoDetails
    ELSE IF ~updates.ok THEN NoDetails
    ELSE [ok |-> TRUE, day |-> updates.day,
          declaration_date |-> IF updates.nov30 THEN November30 ELSE NoDate]

DetailsResults ==
    {get_snow_emergency_details(a, u) : a \in DetailsPages, u \in DetailsPages}

(***************************************************************************)
(* EMBED BUILDER                                                           *)
(***************************************************************************)
\* create_snow_emergency_embed(status_info).  A field the embed does not get
\* (declared date or day empty) is None / NoDate.
create_snow_emergency_embed(status_info) ==
    IF status_info.active
    THEN [title       |-> "SNOW EMERGENCY DECLARED",
          declared_on |-> status_info.declared_date,
          day_of_3    |-> status_info.day,
          source      |-> status_info.source]
    ELSE [title       |-> "No Snow Emergency",
          declared_on |-> NoDate,
          day_of_3    |-> None,
          source      |-> None]

\* No embed and no message.
NoEmbed ==
    [title |-> None, declared_on |-> NoDate, day_of_3 |-> None, source |-> None]

NoMessage == [content |-> None, embed |-> NoEmbed]

(***************************************************************************)
(* BACKGROUND LOOP: check_snow_emergency                                   *)
(***************************************************************************)
TEST_MODE == TRUE

\* Variant of the selection: snowmpls.com counts only when the homepage
\* answered.
select_source_needs_homepage(homepage_status, snowmpls_status) ==
    IF homepage_status.ok /\ homepage_status.active THEN homepage_status
    ELSE IF homepage_status.ok /\ snowmpls_status.ok /\ snowmpls_status.active
    THEN snowmpls_status
    ELSE NoDict

\* Variant of the selection: snowmpls.com first, the homepage otherwise.
select_source_snowmpls_first(homepage_status, snowmpls_status) ==
    IF snowmpls_status.ok /\ snowmpls_status.active THEN snowmpls_status
    ELSE IF homepage_status.ok /\ homepage_status.active THEN homepage_status
    ELSE NoDict

\* Lines 482-500: the homepage first, snowmpls.com otherwise.
select_source(homepage_status, snowmpls_status) ==
    IF homepage_status.ok /\ homepage_status.active THEN homepage_status
    ELSE IF snowmpls_status.ok /\ snowmpls_status.active THEN snowmpls_status
    ELSE NoDict

\* Variants of the change test: every active cycle counts as a change; every
\* cycle counts as a change.
status_changed_while_active(stored_active, is_active) ==
    stored_active # is_active \/ is_active

status_changed_always(stored_active, is_active) ==
    stored_active # is_active \/ ~is_active

\* Line 502.
status_changed(stored_active, is_active) == stored_active # is_active

\* Variant of the final values: a declaration date whose Day 3 has ended is
\* replaced by today and the day is calculated again.
final_values_replacing_stale(detected_day, details, t) ==
    LET final_day1 ==
            IF details.ok /\ detected_day = None /\ details.day # None
            THEN details.day ELSE detected_day
        declared1 ==
            IF details.ok /\ details.declaration_date # NoDate
            THEN details.declaration_date
            ELSE IF final_day1 # None
            THEN calculate_declaration_date(final_day1, t) ELSE strftime(t)
        stale == t > day3_end(strptime(declared1))
        declared2 == IF stale THEN strftime(t) ELSE declared1
    IN  [final_day |-> calculate_current_day_from_declaration(declared2, t),
         declared_date |-> declared2]

\* Variant of the final values: without the last resort of lines 538-541.
final_values_without_last_resort(detected_day, details, t) ==
    LET final_day1 ==
            IF details.ok /\ detected_day = None /\ details.day # None
            THEN details.day ELSE detected_day
        declared1 ==
            IF details.ok /\ details.declaration_date # NoDate
            THEN details.declaration_date
            ELSE IF final_day1 # None
            THEN calculate_declaration_date(final_day1, t) ELSE NoDate
        recalculated_day ==
            IF declared1 # NoDate
            THEN calculate_current_day_from_declaration(declared1, t) ELSE None
    IN  [final_day |-> IF recalculated_day # None THEN recalculated_day
                       ELSE final_day1,
         declared_date |-> declared1]

\* Lines 507-560: the day and the declaration date of a changed status.
final_values(detected_day, details, t) ==
    LET details_day  == details.day
        details_date == details.declaration_date
        final_day1 ==
            IF details.ok /\ detected_day = None /\ details_day # None
            THEN details_day ELSE detected_day
        declared1 ==
            IF details.ok /\ details_date # NoDate THEN details_date ELSE NoDate
        \* a day but no declaration date: calculate backwards
        declared2 ==
            IF final_day1 # None /\ declared1 = NoDate
            THEN calculate_declaration_date(final_day1, t) ELSE declared1
        \* a declaration date but no day: calculate forward
        final_day2 ==
            IF declared2 # NoDate /\ final_day1 = None
            THEN calculate_current_day_from_declaration(declared2, t)
            ELSE final_day1
        \* last resort: today
        declared3 == IF declared2 = NoDate THEN strftime(t) ELSE declared2
        \* final sanity check
        recalculated_day == calculate_current_day_from_declaration(declared3, t)
        final_day3 ==
            IF recalculated_day # None THEN recalculated_day ELSE final_day2
    IN  [final_day |-> final_day3, declared_date |-> declared3]

\* Variant of the command's values: the scraped day is reported as it is.
snow_status_values_scraped_day(detected_day, details, t) ==
    LET fv == final_values(detected_day, details, t)
    IN  [final_day |-> IF detected_day # None THEN detected_day ELSE fv.final_day,
         declared_date |-> fv.declared_date]

\* Lines 645-682 of snow_status(): the day and the declaration date of the
\* reply.
snow_status_values(detected_day, details, t) ==
    LET details_day  == details.day
        details_date == details.declaration_date
        final_day1 ==
            IF details.ok /\ detected_day = None /\ details_day # None
            THEN details_day ELSE detected_day
        declared1 ==
            IF details.ok /\ details_date # NoDate THEN details_date ELSE NoDate
        \* no declaration date: infer it from the day, whatever it is
        declared2 ==
            IF declared1 = NoDate
            THEN calculate_declaration_date(final_day1, t) ELSE declared1
        \* final sanity check
        recalculated_day ==
            IF declared2 # NoDate
            THEN calculate_current_day_from_declaration(declared2, t) ELSE None
        final_day2 ==
            IF recalculated_day # None THEN recalculated_day ELSE final_day1
    IN  [final_day |-> final_day2, declared_date |-> declared2]

\* Variant of the dispatch: in test mode nothing is sent.
dispatch_silent_in_test_mode(test_mode, channel_id, channel, is_active, source, final_day, declared_date) ==
    IF channel_id # 0 /\ channel /\ ~test_mode
    THEN [content |-> IF is_active THEN "@here" ELSE None,
          embed |-> create_snow_emergency_embed(
                        [active |-> is_active,
                         source |-> IF source.ok THEN source.source
                                    ELSE "Minneapolis",
                         day |-> final_day, declared_date |-> declared_date])]
    ELSE NoMessage

\* Lines 575-594: what the channel receives when TEST_MODE has the value
\* test_mode; channel is bot.get_channel()'s result (FALSE: None).
dispatch_in_mode(test_mode, channel_id, channel, is_active, source, final_day, declared_date) ==
    IF channel_id # 0 /\ channel
    THEN LET status_info ==
                 [active |-> is_active,
                  source |-> IF source.ok THEN source.source ELSE "Minneapolis",
                  day |-> final_day,
                  declared_date |-> declared_date]
             embed == create_snow_emergency_embed(status_info)
         IN  IF is_active /\ ~test_mode
             THEN [content |-> "@here", embed |-> embed]
             ELSE [content |-> None, embed |-> embed]
    ELSE NoMessage

(***************************************************************************)
(* The clock.                                                              *)
(***************************************************************************)
\* The first calendar day of the model: November 30, 2025.
FirstDay == ToOrdinal(2025, 11, 30)

ClockDays == FirstDay .. (FirstDay + MaxDays - 1)

\* Times of day at which a check cycle may run: one inside every window of the
\* schedule and the boundaries 08:00, 20:00 and 21:00 themselves.
CycleTimes == {3 * SecondsPerHour, 8 * SecondsPerHour, 14 * SecondsPerHour,
               20 * SecondsPerHour, 21 * SecondsPerHour}

ClockInstants == {d * SecondsPerDay + s : d \in ClockDays, s \in CycleTimes}

\* The instants at which the check cycle after one at u may run: the loop
\* sleeps 15 minutes, so it reaches one of the next MaxAhead instants.
LaterInstants ==
    [u \in ClockInstants |->
        {t \in ClockInstants :
            /\ t > u
            /\ Cardinality({v \in ClockInstants : u < v /\ v <= t}) <= MaxAhead}]

\* Hours at which some window of some schedule starts or ends, midnight (the
\* change of "today") included.
BoundaryHours == {0, 8, 20, 21}

\* For every instant, the later instants with no boundary in between.
SameWindow ==
    [t1 \in ClockInstants |->
        {t2 \in ClockInstants :
            /\ t1 < t2
            /\ \A d \in ClockDays, h \in BoundaryHours :
                   LET b == d * SecondsPerDay + h * SecondsPerHour
                   IN  ~(t1 < b /\ b <= t2)}]

(***************************************************************************)
(* State.                                                                  *)
(***************************************************************************)
\* A datetime that is absent (None): a number no instant of the clock has.
NoTime == -1

\* current_status as the module creates it (lines 54-60).
InitialStatus ==
    [active |-> FALSE, last_check |-> NoTime, details |-> None, day |-> None,
     source |-> NoDict]

NoAlert == [sent |-> FALSE, day |-> None, declared_date |-> NoDate]

\* The same cycle in a run whose TEST_MODE has the other value.
NoTwin == [status |-> InitialStatus, message |-> NoMessage]

NoCycle ==
    [kind |-> "none", probes_failed |-> FALSE, evidence |-> NoDict,
     pre_active |-> FALSE, is_active |-> FALSE, changed |-> FALSE,
     final_day |-> None, declared_date |-> NoDate, channel |-> FALSE,
     message |-> NoMessage, repeat |-> FALSE, scraped_date |-> FALSE,
     dropped_date |-> NoDate, twin |-> NoTwin,
     last_title |-> None, unreachable |-> FALSE, details_fetched |-> FALSE]

\* A month and day found in the text of a page; abbreviated: the month is
\* written "Nov." or "Nov" instead of "November".
NoMention == [month |-> None, day |-> 0, abbreviated |-> FALSE]

\* date, result: the argument and the result of the day calculation at now;
\* before, before_at: the result and the instant of the call before it;
\* ended: a call has returned None after a call that returned a day;
\* current_day, declared: the argument and the result of the declaration date
\* calculation at now; again: the day calculated at now from that result;
\* page, mention, extracted: a text and the declaration date taken from it.
NoCalc == [date |-> NoDate, result |-> "unset",
           before |-> "unset", before_at |-> NoTime, ended |-> FALSE,
           current_day |-> "unset", declared |-> NoDate, again |-> "unset",
           page |-> None, mention |-> NoMention, extracted |-> NoDate,
           extract_done |-> FALSE]

NoValues == [set |-> FALSE, active |-> FALSE, final_day |-> None,
             declared_date |-> NoDate]

\* A coroutine that is not running, or is between two runs.
IdleCheck == [pc |-> "idle", homepage_status |-> NoDict, source |-> NoDict,
              message |-> NoMessage]
IdleCommand == [pc |-> "idle", homepage_status |-> NoDict, source |-> NoDict,
                reply |-> NoEmbed, between |-> FALSE]

\* running is check_snow_emergency.is_running(); loops is the number of
\* launched, unfinished instances of the loop; reconnected: on_ready() has
\* fired while the loop was running.
NoTasks == [running |-> FALSE, loops |-> 0, reconnected |-> FALSE,
            check |-> IdleCheck, command |-> IdleCommand]

NoEval == [stage |-> "none", homepage |-> FetchFailed, snowmpls |-> FetchFailed,
           details |-> NoDetails, evidence |-> NoDict,
           check |-> NoValues, command |-> NoValues]

Init ==
    /\ now \in ClockInstants
    /\ current_status = InitialStatus
    /\ CHANNEL_ID \in {0, 1}
    /\ last_alert = NoAlert
    /\ cycle = NoCycle
    /\ calc = NoCalc
    /\ eval = NoEval
    /\ tasks = NoTasks

\* Lines 562-594 of a cycle whose status changed: the status stored and the
\* message sent when TEST_MODE has the value test_mode, fv being the final
\* values of lines 507-560.
changed_run(test_mode, channel_id, t, channel, source, fv) ==
    [status |-> [active |-> source.ok, last_check |-> t, details |-> None,
                 day |-> fv.final_day, source |-> source],
     message |-> dispatch_in_mode(test_mode, channel_id, channel, source.ok,
                                  source, fv.final_day, fv.declared_date),
     final_day |-> fv.final_day, declared_date |-> fv.declared_date]

\* Lines 479-596 from a stored status: the status stored, the message sent
\* and the final values computed when TEST_MODE has the value test_mode.
run_check(test_mode, status, channel_id, t, homepage_status, snowmpls_status, details, channel) ==
    LET source == select_source(homepage_status, snowmpls_status)
    IN  IF status_changed(status.active, source.ok)
        THEN changed_run(test_mode, channel_id, t, channel, source,
                         final_values(source.day,
                                      IF source.ok THEN details ELSE NoDetails,
                                      t))
        ELSE [status |-> [status EXCEPT !.last_check = t],
              message |-> NoMessage,
              final_day |-> None, declared_date |-> NoDate]

\* What a cycle leaves behind: run is the cycle as the module runs it, other
\* the same cycle with the other value of TEST_MODE.
CycleOutcome(t, homepage_status, snowmpls_status, details, channel, source, run, other) ==
    /\ now' = t
    /\ current_status' = run.status
    /\ last_alert' =
           IF run.message # NoMessage /\ source.ok
           THEN [sent |-> TRUE, day |-> run.message.embed.day_of_3,
                 declared_date |-> run.message.embed.declared_on]
           ELSE last_alert
    /\ cycle' =
           LET is_active == source.ok
               changed   == status_changed(current_status.active, is_active)
           IN  [kind |-> "check",
                probes_failed |-> ~homepage_status.ok /\ ~snowmpls_status.ok,
                evidence |-> source,
                pre_active |-> current_status.active, is_active |-> is_active,
                changed |-> changed,
                final_day |-> run.final_day,
                declared_date |-> run.declared_date,
                channel |-> channel,
                message |-> run.message,
                \* the cycle before read the same evidence in the same window
                repeat |-> /\ cycle.kind = "check"
                           /\ cycle.evidence = source
                           /\ cycle.probes_failed
                                  = (~homepage_status.ok /\ ~snowmpls_status.ok)
                           /\ t \in SameWindow[now],
                \* the details page gave a declaration date to this cycle
                scraped_date |-> /\ changed /\ is_active /\ details.ok
                                 /\ details.declaration_date # NoDate,
                \* the declaration date the cycle before computed, when both
                \* probes of this cycle failed and the status became inactive
                dropped_date |->
                    IF /\ changed /\ ~is_active
                       /\ ~homepage_status.ok /\ ~snowmpls_status.ok
                       /\ cycle.changed /\ cycle.is_active
                    THEN cycle.declared_date ELSE NoDate,
                twin |-> [status |-> other.status, message |-> other.message],
                \* the title of the latest message the channel received, as
                \* long as it has received every message there was to send
                last_title |-> IF \/ cycle.unreachable
                                  \/ changed /\ ~(CHANNEL_ID # 0 /\ channel)
                               THEN None
                               ELSE IF run.message # NoMessage
                               THEN run.message.embed.title
                               ELSE cycle.last_title,
                \* some cycle so far had a message to send and no channel
                unreachable |-> \/ cycle.unreachable
                                \/ changed /\ ~(CHANNEL_ID # 0 /\ channel),
                \* line 513 was reached: the details scraper was awaited
                details_fetched |-> changed /\ is_active]
    /\ UNCHANGED <<CHANNEL_ID, calc, eval, tasks>>

\* One run of check_snow_emergency() at the instant t, with the results of the
\* awaited calls as inputs: the two probes, the details scraper (awaited only
\* for a changed, active status) and bot.get_channel() (called only for a
\* changed status and a non-zero CHANNEL_ID).
CheckCycle(t, homepage_status, snowmpls_status, details, channel) ==
    CycleOutcome(t, homepage_status, snowmpls_status, details, channel,
                 select_source(homepage_status, snowmpls_status),
                 run_check(TEST_MODE, current_status, CHANNEL_ID, t,
                           homepage_status, snowmpls_status, details, channel),
                 run_check(~TEST_MODE, current_status, CHANNEL_ID, t,
                           homepage_status, snowmpls_status, details, channel))

\* An exception escaping an awaited scraper ends the coroutine where it is:
\* nothing after the await runs.  The scrapers are awaited before the first
\* write to current_status.
CheckAborted(t) ==
    /\ now' = t
    /\ cycle' = [NoCycle EXCEPT !.kind = "aborted",
                                !.last_title = cycle.last_title,
                                !.unreachable = cycle.unreachable]
    /\ UNCHANGED <<current_status, CHANNEL_ID, last_alert, calc, eval, tasks>>

\* All a cycle takes from the results of its two probes: the evidence
\* selected, whether both failed, whether an exception escaped one.
ProbeDigest(homepage_status, snowmpls_status) ==
    <<select_source(homepage_status, snowmpls_status),
      ~homepage_status.ok /\ ~snowmpls_status.ok,
      homepage_status = Raised \/ snowmpls_status = Raised>>

\* The results of the two probes of a cycle: of the pairs the cycle cannot
\* tell apart, one.
ProbeResults ==
    LET all == HomepageResults \X SnowmplsResults
    IN  {CHOOSE p \in all : ProbeDigest(p[1], p[2]) = d :
            d \in {ProbeDigest(q[1], q[2]) : q \in all}}

check_snow_emergency ==
    \E t \in LaterInstants[now], probes \in ProbeResults :
        LET homepage_status == probes[1]
            snowmpls_status == probes[2]
            is_active == select_source(homepage_status, snowmpls_status).ok
            changed   == status_changed(current_status.active, is_active)
        IN  \E details \in (IF changed /\ is_active
                            THEN DetailsResults ELSE {NoDetails}),
               channel \in (IF changed /\ CHANNEL_ID # 0
                            THEN BOOLEAN ELSE {FALSE}) :
                IF \/ homepage_status = Raised \/ snowmpls_status = Raised
                   \/ details = Raised
                THEN CheckAborted(t)
                ELSE CheckCycle(t, homepage_status, snowmpls_status, details,
                                channel)

Next == check_snow_emergency

Spec == Init /\ [][Next]_vars

(***************************************************************************)
(* The day calculation applied directly to a declaration date.             *)
(***************************************************************************)
\* Times of day around every boundary of the schedule, to the second.
FineTimes ==
    {0, 8 * SecondsPerHour - 1, 8 * SecondsPerHour, 14 * SecondsPerHour,
     20 * SecondsPerHour - 1, 20 * SecondsPerHour, 20 * SecondsPerHour + 1,
     21 * SecondsPerHour - 1, 21 * SecondsPerHour, SecondsPerDay - 1}

FineInstants == {d * SecondsPerDay + s : d \in ClockDays, s \in FineTimes}

\* Declaration date strings: the dates of consecutive days, and one text that
\* is no date.
DeclarationStrings ==
    {strftime(d * SecondsPerDay) : d \in FirstDay .. (FirstDay + MaxDeclDays - 1)}
    \cup {[month |-> "November", day |-> 31, year |-> 2025]}

InitCalc ==
    /\ now \in FineInstants
    /\ calc \in {[NoCalc EXCEPT !.date = d] : d \in DeclarationStrings}
    /\ current_status = InitialStatus
    /\ CHANNEL_ID = 0
    /\ last_alert = NoAlert
    /\ cycle = NoCycle
    /\ eval = NoEval
    /\ tasks = NoTasks

\* The call calculate_current_day_from_declaration(calc.date) at the instant now.
DayCalc ==
    /\ calc.result = "unset"
    /\ LET result == calculate_current_day_from_declaration(calc.date, now)
       IN  calc' = [calc EXCEPT
                       !.result = result,
                       !.ended = \/ calc.ended
                                 \/ /\ calc.before \in {"1", "2", "3"}
                                    /\ result = None]
    /\ UNCHANGED <<now, current_status, CHANNEL_ID, last_alert, cycle, eval, tasks>>

\* Time passes before the next call.
ClockAdvance ==
    /\ calc.result # "unset"
    /\ \E t \in FineInstants : t > now /\ now' = t
    /\ calc' = [calc EXCEPT !.result = "unset", !.before = calc.result,
                            !.before_at = now]
    /\ UNCHANGED <<current_status, CHANNEL_ID, last_alert, cycle, eval, tasks>>

NextCalc == DayCalc \/ ClockAdvance

SpecCalc == InitCalc /\ [][NextCalc]_vars

(***************************************************************************)
(* The declaration date calculated backwards from a day, and the day       *)
(* calculated forward again from that date, at one instant.                *)
(***************************************************************************)
\* Arguments of calculate_declaration_date(): None, the empty string, strings
\* that are no number, and decimal integers, the three days among them.
DayInputs == {None, "", "abc", "1.5"} \cup DOMAIN int

InitDate ==
    /\ now \in FineInstants
    /\ calc \in {[NoCalc EXCEPT !.date = d] : d \in DeclarationStrings}
    /\ current_status = InitialStatus
    /\ CHANNEL_ID = 0
    /\ last_alert = NoAlert
    /\ cycle = NoCycle
    /\ eval = NoEval
    /\ tasks = NoTasks

\* The call calculate_declaration_date(current_day) at the instant now.
DateCalc ==
    /\ calc.current_day = "unset"
    /\ \E current_day \in DayInputs :
           calc' = [calc EXCEPT
                       !.current_day = current_day,
                       !.declared = calculate_declaration_date(current_day, now)]
    /\ UNCHANGED <<now, current_status, CHANNEL_ID, last_alert, cycle, eval, tasks>>

\* The day is calculated from the calculated declaration date, as the final
\* sanity check of lines 545-560 does.
DayAgain ==
    /\ calc.current_day # "unset"
    /\ calc.again = "unset"
    /\ calc.declared # ValueError
    /\ calc' = [calc EXCEPT !.again =
                    calculate_current_day_from_declaration(calc.declared, now)]
    /\ UNCHANGED <<now, current_status, CHANNEL_ID, last_alert, cycle, eval, tasks>>

NextDate == DayCalc \/ DateCalc \/ DayAgain

SpecDate == InitDate /\ [][NextDate]_vars

(***************************************************************************)
(* The declaration date taken from the text of a details page.             *)
(***************************************************************************)
\* Dates a page may mention, by full or abbreviated month name.
Mentions ==
    {[month |-> m[1], day |-> m[2], abbreviated |-> a] :
        m \in {<<"November", 30>>, <<"December", 30>>, <<"January", 2>>,
               <<"October", 15>>, <<"February", 10>>, <<"June", 1>>},
        a \in BOOLEAN}

\* The instants at which the page is read: noon of these dates.
ReferenceInstants ==
    {strptime(d) + 12 * SecondsPerHour :
        d \in {[month |-> "November", day |-> 30, year |-> 2025],
               [month |-> "December", day |-> 20, year |-> 2025],
               [month |-> "January",  day |-> 5,  year |-> 2026],
               [month |-> "February", day |-> 10, year |-> 2026],
               [month |-> "June",     day |-> 15, year |-> 2026],
               [month |-> "November", day |-> 30, year |-> 2026]}}

\* Lines 301-306 (announcement page) and 352-365 (updates page) of
\* get_snow_emergency_details(): the announcement page is searched for
\* "November 30", the updates page for "November 30", "Nov. 30" and "Nov 30";
\* a match gives the literal "November 30, 2025", whatever datetime.now() (t)
\* is; any other text gives None.
extract_declaration_date(page, mention, t) ==
    IF /\ mention.month = "November" /\ mention.day = 30
       /\ (page = "updates" \/ ~mention.abbreviated)
    THEN November30
    ELSE NoDate

InitExtract ==
    /\ now \in ReferenceInstants
    /\ calc \in {[NoCalc EXCEPT !.page = p, !.mention = m] :
                     p \in {"announcement", "updates"},
                     m \in Mentions \cup {NoMention}}
    /\ current_status = InitialStatus
    /\ CHANNEL_ID = 0
    /\ last_alert = NoAlert
    /\ cycle = NoCycle
    /\ eval = NoEval
    /\ tasks = NoTasks

\* The declaration date is taken from the text of the page read at now.
ExtractDate ==
    /\ ~calc.extract_done
    /\ calc' = [calc EXCEPT !.extract_done = TRUE,
                            !.extracted =
                                extract_declaration_date(calc.page,
                                                         calc.mention, now)]
    /\ UNCHANGED <<now, current_status, CHANNEL_ID, last_alert, cycle, eval, tasks>>

NextExtract == ExtractDate

SpecExtract == InitExtract /\ [][NextExtract]_vars

(***************************************************************************)
(* Both triggers applied to the same pages at the same instant.            *)
(***************************************************************************)
InitEval ==
    /\ now \in ClockInstants
    /\ eval \in [stage : {"pages"}, homepage : ProbePages(HomepageDays),
                 snowmpls : ProbePages(SnowmplsDays), details : DetailsResults,
                 evidence : {NoDict}, check : {NoValues}, command : {NoValues}]
    /\ current_status = InitialStatus
    /\ CHANNEL_ID = 0
    /\ last_alert = NoAlert
    /\ cycle = NoCycle
    /\ calc = NoCalc
    /\ tasks = NoTasks

\* Lines 479-500 (and 629-643, the same statements): both probes are awaited
\* and the evidence is selected.  An exception escaping a probe would escape
\* the caller too.
GatherEvidence ==
    /\ eval.stage = "pages"
    /\ LET homepage_status == check_minneapolis_homepage(eval.homepage)
           snowmpls_status == check_snowmpls_com(eval.snowmpls)
       IN  eval' =
               IF homepage_status = Raised \/ snowmpls_status = Raised
               THEN [eval EXCEPT !.stage = "raised"]
               ELSE [eval EXCEPT !.stage = "evidence",
                         !.evidence = select_source(homepage_status,
                                                    snowmpls_status)]
    /\ UNCHANGED <<now, current_status, CHANNEL_ID, last_alert, cycle, calc, tasks>>

\* Lines 507-583: what check_snow_emergency() computes for its notification.
CheckValues ==
    /\ eval.stage = "evidence"
    /\ ~eval.check.set
    /\ LET is_active == eval.evidence.ok
           fv == final_values(eval.evidence.day,
                              IF is_active THEN eval.details ELSE NoDetails, now)
       IN  eval' = [eval EXCEPT !.check =
                       [set |-> TRUE, active |-> is_active,
                        final_day |-> fv.final_day,
                        declared_date |-> fv.declared_date]]
    /\ UNCHANGED <<now, current_status, CHANNEL_ID, last_alert, cycle, calc, tasks>>

\* Lines 645-698: what snow_status() computes for its reply.
CommandValues ==
    /\ eval.stage = "evidence"
    /\ ~eval.command.set
    /\ LET is_active == eval.evidence.ok
           fv == snow_status_values(eval.evidence.day,
                                    IF is_active THEN eval.details ELSE NoDetails,
                                    now)
       IN  eval' = [eval EXCEPT !.command =
                       [set |-> TRUE, active |-> is_active,
                        final_day |-> fv.final_day,
                        declared_date |-> fv.declared_date]]
    /\ UNCHANGED <<now, current_status, CHANNEL_ID, last_alert, cycle, calc, tasks>>

NextEval == GatherEvidence \/ CheckValues \/ CommandValues

SpecEval == InitEval /\ [][NextEval]_vars

(***************************************************************************)
(* The coroutines on the event loop.  A coroutine runs alone from one      *)
(* await to the next; at an await another coroutine may run.  The clock    *)
(* stands still: the subject is the order of the steps.                    *)
(***************************************************************************)
\* The instants of the first day of the clock.
AsyncInstants == {t \in ClockInstants : t \div SecondsPerDay = FirstDay}

\* Variant of the command: it stores what it found, as the check does.
status_after_snow_status_stored(status, is_active, final_day, source, t) ==
    [status EXCEPT !.active = is_active, !.last_check = t, !.day = final_day,
                   !.source = source]

\* Lines 621-702: snow_status() assigns nothing to current_status.
status_after_snow_status(status, is_active, final_day, source, t) == status

\* Lines 705-749: the static embed of snow_help().
HelpEmbed ==
    [title |-> "Minneapolis Snow Emergency Parking Rules",
     declared_on |-> NoDate, day_of_3 |-> None, source |-> None]

InitAsync ==
    /\ now \in AsyncInstants
    /\ current_status = InitialStatus
    /\ CHANNEL_ID = 1
    /\ last_alert = NoAlert
    /\ cycle = NoCycle
    /\ calc = NoCalc
    /\ eval = NoEval
    /\ tasks = NoTasks

\* The check cycle is suspended between its read of current_status["active"]
\* (line 502) and its writes (lines 570-573): at the await of line 513.
Between == tasks.check.pc = "details"

\* Variant of on_ready(): the loop is launched whether it is running or not
\* (a third instance is not counted).
launched_unguarded(running, loops) == IF loops < 2 THEN loops + 1 ELSE loops

\* Lines 618-619: the number of instances of the loop after on_ready().
launched(running, loops) == IF ~running THEN loops + 1 ELSE loops

\* Lines 611-619: on_ready() starts the loop unless it is running.
on_ready ==
    /\ tasks' =
           IF launched(tasks.running, tasks.loops) = tasks.loops
           THEN [tasks EXCEPT !.reconnected = TRUE]
           ELSE [tasks EXCEPT !.running = TRUE,
                              !.loops = launched(tasks.running, tasks.loops),
                              !.reconnected = @ \/ tasks.running,
                              !.check = IdleCheck]
    /\ UNCHANGED <<now, current_status, CHANNEL_ID, last_alert, cycle, calc, eval>>

\* tasks.loop begins an iteration of check_snow_emergency(): line 479 awaits
\* the homepage probe.
LoopIteration ==
    /\ tasks.running
    /\ tasks.check.pc = "idle"
    /\ tasks' = [tasks EXCEPT !.check.pc = "homepage"]
    /\ UNCHANGED <<now, current_status, CHANNEL_ID, last_alert, cycle, calc, eval>>

\* An exception leaves check_snow_emergency(): tasks.loop stops the loop.
LoopAborted ==
    [tasks EXCEPT !.running = FALSE, !.loops = @ - 1,
                  !.check = [IdleCheck EXCEPT !.pc = "aborted"]]

\* Line 479 returns; line 480 awaits snowmpls.com.
CheckHomepageReturns ==
    /\ tasks.check.pc = "homepage"
    /\ \E homepage_status \in HomepageResults :
           tasks' = IF homepage_status = Raised THEN LoopAborted
                    ELSE [tasks EXCEPT !.check.pc = "snowmpls",
                              !.check.homepage_status = homepage_status]
    /\ UNCHANGED <<now, current_status, CHANNEL_ID, last_alert, cycle, calc, eval>>

\* Lines 507-596 after the last scraper has returned: the final values, the
\* writes of lines 570-573 and, with a channel, the await of channel.send;
\* without one, line 596 ends the cycle.
CheckWriteBack(source, details, channel) ==
    LET is_active == source.ok
        fv == final_values(source.day,
                           IF is_active THEN details ELSE NoDetails, now)
        message == dispatch_in_mode(TEST_MODE, CHANNEL_ID, channel, is_active,
                                    source, fv.final_day, fv.declared_date)
    IN  /\ current_status' =
               [current_status EXCEPT !.active = is_active, !.last_check = now,
                                      !.day = fv.final_day, !.source = source]
        /\ tasks' = IF message = NoMessage
                    THEN [tasks EXCEPT !.check = IdleCheck]
                    ELSE [tasks EXCEPT !.check =
                             [IdleCheck EXCEPT !.pc = "send",
                                               !.message = message]]
        /\ UNCHANGED <<now, CHANNEL_ID, last_alert, cycle, calc, eval>>

\* Line 480 returns; lines 482-502 select the evidence and read
\* current_status["active"].  A changed, active status awaits the details
\* (line 513); a changed, inactive one goes on to the writes; an unchanged
\* one goes to line 596.
CheckSnowmplsReturns ==
    /\ tasks.check.pc = "snowmpls"
    /\ \E snowmpls_status \in SnowmplsResults, channel \in BOOLEAN :
           LET source    == select_source(tasks.check.homepage_status,
                                          snowmpls_status)
               is_active == source.ok
               changed   == status_changed(current_status.active, is_active)
           IN  IF snowmpls_status = Raised
               THEN /\ tasks' = LoopAborted
                    /\ UNCHANGED <<now, current_status, CHANNEL_ID, last_alert,
                                   cycle, calc, eval>>
               ELSE IF changed /\ is_active
               THEN /\ tasks' = [tasks EXCEPT !.check =
                                     [IdleCheck EXCEPT !.pc = "details",
                                                       !.source = source]]
                    /\ UNCHANGED <<now, current_status, CHANNEL_ID, last_alert,
                                   cycle, calc, eval>>
               ELSE IF changed
               THEN CheckWriteBack(source, NoDetails, channel)
               ELSE /\ current_status' =
                           [current_status EXCEPT !.last_check = now]
                    /\ tasks' = [tasks EXCEPT !.check = IdleCheck]
                    /\ UNCHANGED <<now, CHANNEL_ID, last_alert, cycle, calc,
                                   eval>>

\* Line 513 returns.
CheckDetailsReturn ==
    /\ tasks.check.pc = "details"
    /\ \E details \in DetailsResults, channel \in BOOLEAN :
           IF details = Raised
           THEN /\ tasks' = LoopAborted
                /\ UNCHANGED <<now, current_status, CHANNEL_ID, last_alert,
                               cycle, calc, eval>>
           ELSE CheckWriteBack(tasks.check.source, details, channel)

\* channel.send returns (lines 588-594); line 596.
CheckSendReturns ==
    /\ tasks.check.pc = "send"
    /\ current_status' = [current_status EXCEPT !.last_check = now]
    /\ tasks' = [tasks EXCEPT !.check = IdleCheck]
    /\ UNCHANGED <<now, CHANNEL_ID, last_alert, cycle, calc, eval>>

\* A user sends !snowstatus: line 629 awaits the homepage probe.
SnowStatusInvoked ==
    /\ tasks.command.pc = "idle"
    /\ tasks' = [tasks EXCEPT !.command =
                     [IdleCommand EXCEPT !.pc = "homepage", !.between = Between]]
    /\ UNCHANGED <<now, current_status, CHANNEL_ID, last_alert, cycle, calc, eval>>

\* Line 629 returns; line 630 awaits snowmpls.com.
SnowStatusHomepageReturns ==
    /\ tasks.command.pc = "homepage"
    /\ \E homepage_status \in HomepageResults :
           tasks' = IF homepage_status = Raised
                    THEN [tasks EXCEPT !.command = IdleCommand]
                    ELSE [tasks EXCEPT !.command.pc = "snowmpls",
                              !.command.homepage_status = homepage_status,
                              !.command.between = Between]
    /\ UNCHANGED <<now, current_status, CHANNEL_ID, last_alert, cycle, calc, eval>>

\* Lines 645-702 after the last scraper has returned: the final values, the
\* embed, and the await of ctx.send.
SnowStatusReply(source, details) ==
    LET is_active == source.ok
        fv == snow_status_values(source.day,
                                 IF is_active THEN details ELSE NoDetails, now)
        embed == create_snow_emergency_embed(
                     [active |-> is_active,
                      source |-> IF source.ok THEN source.source
                                 ELSE "Minneapolis",
                      day |-> fv.final_day,
                      declared_date |-> fv.declared_date])
    IN  /\ tasks' = [tasks EXCEPT !.command =
                         [IdleCommand EXCEPT !.pc = "send", !.source = source,
                                             !.reply = embed,
                                             !.between = Between]]
        /\ current_status' =
               status_after_snow_status(current_status, is_active,
                                        fv.final_day, source, now)
        /\ UNCHANGED <<now, CHANNEL_ID, last_alert, cycle, calc, eval>>

\* Line 630 returns; active evidence awaits the details (line 651).
SnowStatusSnowmplsReturns ==
    /\ tasks.command.pc = "snowmpls"
    /\ \E snowmpls_status \in SnowmplsResults :
           LET source == select_source(tasks.command.homepage_status,
                                       snowmpls_status)
           IN  IF snowmpls_status = Raised
               THEN /\ tasks' = [tasks EXCEPT !.command = IdleCommand]
                    /\ UNCHANGED <<now, current_status, CHANNEL_ID, last_alert,
                                   cycle, calc, eval>>
               ELSE IF source.ok
               THEN /\ tasks' = [tasks EXCEPT !.command =
                                     [IdleCommand EXCEPT !.pc = "details",
                                                         !.source = source,
                                                         !.between = Between]]
                    /\ UNCHANGED <<now, current_status, CHANNEL_ID, last_alert,
                                   cycle, calc, eval>>
               ELSE SnowStatusReply(source, NoDetails)

\* Line 651 returns.
SnowStatusDetailsReturn ==
    /\ tasks.command.pc = "details"
    /\ \E details \in DetailsResults :
           IF details = Raised
           THEN /\ tasks' = [tasks EXCEPT !.command = IdleCommand]
                /\ UNCHANGED <<now, current_status, CHANNEL_ID, last_alert,
                               cycle, calc, eval>>
           ELSE SnowStatusReply(tasks.command.source, details)

\* A user sends !snowhelp: the embed is built and ctx.send awaited (line 749).
SnowHelpInvoked ==
    /\ tasks.command.pc = "idle"
    /\ tasks' = [tasks EXCEPT !.command =
                     [IdleCommand EXCEPT !.pc = "help_send", !.reply = HelpEmbed,
                                         !.between = Between]]
    /\ UNCHANGED <<now, current_status, CHANNEL_ID, last_alert, cycle, calc, eval>>

\* ctx.send returns (line 702): the command is over.
SnowStatusSendReturns ==
    /\ tasks.command.pc = "send"
    /\ tasks' = [tasks EXCEPT !.command = IdleCommand]
    /\ UNCHANGED <<now, current_status, CHANNEL_ID, last_alert, cycle, calc, eval>>

\* ctx.send returns (line 749): the command is over.
SnowHelpSendReturns ==
    /\ tasks.command.pc = "help_send"
    /\ tasks' = [tasks EXCEPT !.command = IdleCommand]
    /\ UNCHANGED <<now, current_status, CHANNEL_ID, last_alert, cycle, calc, eval>>

\* The steps of the command !snowstatus.
snow_status ==
    \/ SnowStatusInvoked
    \/ SnowStatusHomepageReturns
    \/ SnowStatusSnowmplsReturns
    \/ SnowStatusDetailsReturn
    \/ SnowStatusSendReturns

\* The steps of the command !snowhelp.
snow_help == SnowHelpInvoked \/ SnowHelpSendReturns

NextAsync ==
    \/ on_ready
    \/ LoopIteration
    \/ CheckHomepageReturns
    \/ CheckSnowmplsReturns
    \/ CheckDetailsReturn
    \/ CheckSendReturns
    \/ snow_status
    \/ snow_help

SpecAsync == InitAsync /\ [][NextAsync]_vars

(***************************************************************************)
(* Properties of the day calculation (SpecCalc).                           *)
(***************************************************************************)
\* The instant k days after the declaration date D (a date string), at h:00.
At(D, k, h) == strptime(D) + k * SecondsPerDay + h * SecondsPerHour

\* A day calculation has run for a declaration date string that is a date.
Calculated == calc.result # "unset" /\ ~strptime_raises(calc.date)

\* C7: the day calculation returns Day 1 exactly for D 21:00 <= now < D+1
\* 08:00, and Day 2 starts exactly at D+1 08:00: the instant on a start
\* boundary belongs to the window starting there, the second before it to the
\* window before.
C7_Day1Window ==
    Calculated =>
        /\ calc.result = "1" <=>
               (At(calc.date, 0, 21) <= now /\ now < At(calc.date, 1, 8))
        /\ calc.result = "2" => now >= At(calc.date, 1, 8)
        /\ now = At(calc.date, 1, 8) => calc.result = "2"
        /\ now = At(calc.date, 1, 8) - 1 => calc.result = "1"
        /\ now = At(calc.date, 0, 21) - 1 => calc.result = None

C7_Witness ==
    /\ Calculated
    /\ calc.date = November30
    /\ now = At(November30, 1, 8)
    /\ calc.result = "2"

\* C8 (as claimed): Day 2 ends at D+1 20:00: from D+1 20:00 until D+2 08:00 the
\* day calculation returns no day.
C8_Day2EndsAt20 ==
    (Calculated /\ At(calc.date, 1, 20) <= now /\ now < At(calc.date, 2, 8))
        => calc.result = None

\* C9 (as claimed): the Day 3 window is end-exclusive: Day 3 at D+2 19:59:59,
\* no day at D+2 20:00:00 and at every later instant.
C9_Day3EndExclusive ==
    Calculated =>
        /\ now = At(calc.date, 2, 20) - 1 => calc.result = "3"
        /\ now >= At(calc.date, 2, 20) => calc.result = None

DayNumber ==
    [d \in {"1", "2", "3"} |-> IF d = "1" THEN 1 ELSE IF d = "2" THEN 2 ELSE 3]

\* The day calculation has been called at an earlier instant and again now.
CalledAgain == calc.result # "unset" /\ calc.before # "unset"

\* C23: for a fixed declaration date and calls at advancing instants, a call
\* never returns a smaller day than the call before it; Day 3 follows Day 1
\* only with an instant in between at which the result is Day 2; and once a
\* call has returned None after a day, every later call returns None.
C23_DayOnlyMovesForward ==
    CalledAgain =>
        /\ (calc.before \in DOMAIN DayNumber /\ calc.result \in DOMAIN DayNumber)
               => DayNumber[calc.before] <= DayNumber[calc.result]
        /\ (calc.before = "1" /\ calc.result = "3") =>
               \E t \in FineInstants :
                   /\ calc.before_at < t /\ t < now
                   /\ calculate_current_day_from_declaration(calc.date, t) = "2"
        /\ calc.ended => calc.result = None

\* C23 witness: Day 3 has been returned, and the call after the end of Day 3
\* returns None.
C23_Witness ==
    /\ CalledAgain
    /\ calc.date = November30
    /\ calc.before = "3"
    /\ calc.result = None
    /\ calc.ended
    /\ now > At(November30, 2, Day3EndHour)

(***************************************************************************)
(* Claims about the declaration date calculation (SpecDate).               *)
(***************************************************************************)
\* The day calculation has returned a day for calc.date at now, and the
\* declaration date has been calculated from that day at now.
RoundTrip ==
    /\ calc.result \in {"1", "2", "3"}
    /\ calc.current_day = calc.result

\* C24 as stated: when the day calculation returns the day d for the
\* declaration date D at now, the declaration date calculated from d at now
\* is D, and the day calculated from that date at now is d again.
C24_RoundTrip ==
    RoundTrip =>
        /\ calc.declared = calc.date
        /\ calc.again # "unset" => calc.again = calc.result

\* The date of the calendar day k days before the one of the instant t.
DaysAgo(t, k) == DateOfOrdinal[(t \div SecondsPerDay) - k]

\* C29: calculate_declaration_date never raises; for the days 1, 2 and 3 it
\* returns the date of today, yesterday and the day before yesterday; for any
\* other argument (None, empty, no number, another integer) it returns the
\* date of today.
C29_DeclarationDateTotal ==
    calc.current_day # "unset" =>
        /\ calc.declared # ValueError
        /\ calc.current_day = "1" => calc.declared = DaysAgo(now, 0)
        /\ calc.current_day = "2" => calc.declared = DaysAgo(now, 1)
        /\ calc.current_day = "3" => calc.declared = DaysAgo(now, 2)
        /\ calc.current_day \notin {"1", "2", "3"}
               => calc.declared = DaysAgo(now, 0)

\* C29 witness: the argument is a string that is no number, and the result
\* is the date of today.
C29_Witness ==
    /\ calc.current_day = "abc"
    /\ now = At(November30, 1, 8)
    /\ calc.declared = [month |-> "December", day |-> 1, year |-> 2025]

(***************************************************************************)
(* Claims about the extraction of the declaration date (SpecExtract).      *)
(***************************************************************************)
\* The year the rollover rule gives a mentioned month read in the month and
\* year of the instant t.
RolloverYear(mention_month, t) ==
    LET m         == MonthNumber[mention_month]
        ref_month == MonthNumber[strftime(t).month]
        ref_year  == strftime(t).year
    IN  IF ref_month \in {1, 2} /\ m \in {10, 11, 12} THEN ref_year - 1
        ELSE IF ref_month \in {10, 11, 12} /\ m \in {1, 2} THEN ref_year + 1
        ELSE ref_year

\* C21 as stated: the date extracted from a mentioned month and day is that
\* month and day in the year inferred from the reference instant: the previous
\* year for October-December read in January or February, the next year for
\* January or February read in October-December, the reference year otherwise.
C21_YearRollover ==
    (calc.extract_done /\ calc.mention # NoMention) =>
        calc.extracted = [month |-> calc.mention.month,
                          day   |-> calc.mention.day,
                          year  |-> RolloverYear(calc.mention.month, now)]

(***************************************************************************)
(* Properties of the check cycle (Spec).                                   *)
(***************************************************************************)
Checked == cycle.kind = "check"
Sent == cycle.message # NoMessage
DeclaredAlert == cycle.message.embed.title = "SNOW EMERGENCY DECLARED"
AllClear == cycle.message.embed.title = "No Snow Emergency"

\* The day calculated now from the declaration date of the last alert sent.
AlertDayNow ==
    calculate_current_day_from_declaration(last_alert.declared_date, now)

C2_Idempotent ==
    [][(/\ now' # now
        /\ Checked
        /\ cycle'.evidence = cycle.evidence
        /\ cycle'.probes_failed = cycle.probes_failed
        /\ now' \in SameWindow[now])
           => cycle'.message = NoMessage]_vars

C2_Witness ==
    /\ Checked /\ cycle.repeat
    /\ cycle.is_active /\ cycle.pre_active
    /\ last_alert.sent
    /\ ~Sent

\* C3 (as claimed): after a notified active emergency, a cycle in which both
\* probes fail and the cycle after it, which sees the emergency active again
\* in the window of the notification, both send nothing.
C3_OutageSilent ==
    [][(/\ now' # now
        /\ Checked /\ cycle.pre_active /\ last_alert.sent
        /\ cycle.probes_failed
        /\ cycle'.is_active
        /\ calculate_current_day_from_declaration(last_alert.declared_date, now')
               = last_alert.day)
           => (cycle.message = NoMessage /\ cycle'.message = NoMessage)]_vars

\* C4 (as claimed): the stored active flag, which the cycle compares against
\* to decide whether to notify, changes only in a cycle that sends a message.
C4_StateChangesOnlyWhenSent ==
    (Checked /\ ~Sent) => current_status.active = cycle.pre_active

\* C5 (as claimed): a cycle whose evidence is inactive sends nothing.
C5_InactiveNeverSends == (Checked /\ ~cycle.is_active) => ~Sent

\* C5 (amended): a cycle whose evidence is inactive never sends a declared
\* alert; it sends nothing when the stored status was inactive, and when the
\* stored status was active it sends only the "No Snow Emergency" embed, with
\* no mention, no day and no declared date, if the channel is reachable.
C5_InactiveSendsOnlyAllClear ==
    (Checked /\ ~cycle.is_active) =>
        /\ ~DeclaredAlert
        /\ ~cycle.pre_active => ~Sent
        /\ (cycle.pre_active /\ CHANNEL_ID # 0 /\ cycle.channel) => Sent
        /\ Sent => /\ AllClear
                   /\ cycle.message.content = None
                   /\ cycle.message.embed.day_of_3 = None
                   /\ cycle.message.embed.declared_on = NoDate

C5_Witness ==
    /\ Checked /\ ~cycle.is_active /\ cycle.pre_active
    /\ Sent /\ AllClear

\* C6 (as claimed): a cycle that sends a declared alert has a day window: the
\* day calculated from the declaration date of the alert, and the day given to
\* the embed, is a day, unless the instant lies before 21:00 of the
\* declaration date (declared, Day 1 pending).
C6_NoAlertWithoutWindow ==
    (Checked /\ cycle.is_active /\ Sent) =>
        \/ now < At(cycle.declared_date, 0, 21)
        \/ /\ calculate_current_day_from_declaration(cycle.declared_date, now) # None
           /\ cycle.message.embed.day_of_3 # None

(***************************************************************************)
(* Claims about the sequence of messages (Spec).                           *)
(***************************************************************************)
\* C22: as long as every cycle with a message to send has reached the
\* channel, a cycle sends a message exactly when the activity it computed
\* differs from the stored one, a declared alert when it became active and an
\* all-clear when it became inactive; a message never has the title of the
\* message before it, and the first message is a declared alert.
C22_MessagesAlternate ==
    /\ [](Checked /\ ~cycle.unreachable =>
             /\ Sent <=> (cycle.pre_active # cycle.is_active)
             /\ Sent => (DeclaredAlert <=> cycle.is_active)
             /\ Sent => (AllClear <=> ~cycle.is_active))
    /\ [][(/\ cycle'.kind = "check" /\ ~cycle'.unreachable
           /\ cycle'.message # NoMessage)
              => /\ cycle'.message.embed.title # cycle.last_title
                 /\ cycle.last_title = None
                        => cycle'.message.embed.title = "SNOW EMERGENCY DECLARED"
         ]_vars

\* C22 witness: every message so far was delivered, and an all-clear has
\* followed a declared alert.
C22_Witness ==
    /\ Checked /\ ~cycle.unreachable
    /\ cycle.pre_active /\ ~cycle.is_active
    /\ Sent /\ AllClear
    /\ last_alert.sent
    /\ cycle.last_title = "No Snow Emergency"

\* C27: a check cycle whose computed activity equals the stored one changes
\* last_check and nothing else of current_status, does not fetch the details
\* page and sends nothing.
C27_UnchangedCycleFrame ==
    [][(cycle'.kind = "check" /\ cycle'.is_active = current_status.active)
          => /\ current_status' = [current_status EXCEPT !.last_check = now']
             /\ ~cycle'.details_fetched
             /\ cycle'.message = NoMessage
             /\ last_alert' = last_alert]_vars

\* C27 witness: the emergency stays active while the homepage shows another
\* day than the stored one; the stored day and source stay as they were.
C27_Witness ==
    /\ Checked /\ cycle.pre_active /\ cycle.is_active
    /\ cycle.evidence.day \in {"1", "2", "3"}
    /\ current_status.day # cycle.evidence.day
    /\ current_status.source # cycle.evidence
    /\ current_status.last_check = now
    /\ ~cycle.details_fetched
    /\ ~Sent

(***************************************************************************)
(* Claims about the values both triggers compute (SpecEval).               *)
(***************************************************************************)
\* The check has computed its values from active evidence.
CheckComputed == eval.check.set /\ eval.check.active

\* The day the pages gave: the probe's, else the details page's.
ScrapedDay ==
    IF eval.evidence.day # None THEN eval.evidence.day ELSE eval.details.day

\* The declaration date the pages gave: the details page's, else the one
\* calculated backwards from the scraped day, else today.
CandidateDate ==
    IF eval.details.declaration_date # NoDate THEN eval.details.declaration_date
    ELSE IF ScrapedDay # None THEN calculate_declaration_date(ScrapedDay, now)
    ELSE strftime(now)

\* Day 3 of the schedule of the declaration date D has ended.
Stale(D) == now > At(D, 2, Day3EndHour)

C12_DateRetained ==
    [][(/\ cycle'.kind = "check" /\ cycle'.changed /\ cycle'.is_active
        /\ ~cycle'.scraped_date
        /\ cycle.dropped_date # NoDate
        /\ now' <= At(cycle.dropped_date, 2, Day3EndHour))
       => cycle'.declared_date = cycle.dropped_date]_vars

\* C13 as stated: the day a check cycle reports is the one the forward
\* calculation gives for the reported declaration date at the instant of the
\* cycle; a scraped day the forward calculation did not produce is never
\* reported.
C13_DayIsForwardDerived ==
    Checked /\ cycle.changed /\ cycle.is_active =>
        cycle.final_day
            = calculate_current_day_from_declaration(cycle.declared_date, now)

\* C19 as stated: whenever the stored status is inactive, no day and no
\* source remain stored.
C19_InactiveIsEmpty ==
    ~current_status.active =>
        /\ current_status.day = None
        /\ current_status.source = NoDict
        /\ current_status.details = None

(***************************************************************************)
(* Claims about evidence gathering (SpecEval).                             *)
(***************************************************************************)
Gathered == eval.stage \notin {"none", "pages"}

\* The probe's fetch returned a page and the page shows the emergency.
HomepageMatched == eval.homepage.ok /\ eval.homepage.phrase
SnowmplsMatched == eval.snowmpls.ok /\ eval.snowmpls.phrase

\* C14: gathering evidence never raises; the evidence is active exactly when
\* at least one probe succeeded and matched; a failed homepage probe does not
\* keep snowmpls.com from counting, and with both probes failed the evidence
\* is inactive, with no source and no day.
C14_ActiveIffProbeMatched ==
    Gathered =>
        /\ eval.stage # "raised"
        /\ eval.evidence.ok <=> (HomepageMatched \/ SnowmplsMatched)
        /\ HomepageMatched =>
               /\ eval.evidence.source = "minneapolis.gov homepage"
               /\ eval.evidence.day = eval.homepage.day
        /\ ~HomepageMatched /\ SnowmplsMatched =>
               /\ eval.evidence.source = "snowmpls.com"
               /\ eval.evidence.day = eval.snowmpls.day
        /\ ~eval.homepage.ok /\ ~eval.snowmpls.ok => eval.evidence = NoDict

\* C14 witness: the homepage fetch raised, snowmpls.com shows the emergency,
\* and the evidence is active.
C14_Witness ==
    /\ Gathered
    /\ eval.homepage.raised
    /\ SnowmplsMatched
    /\ eval.evidence.ok
    /\ eval.evidence.source = "snowmpls.com"

C18_CommandEqualsCheck ==
    eval.check.set /\ eval.command.set =>
        /\ eval.command.active = eval.check.active
        /\ eval.command.final_day = eval.check.final_day
        /\ eval.command.declared_date = eval.check.declared_date

\* C18 witness: active evidence with no day and no date scraped, where the
\* check takes today as its last resort and the command calculates the date
\* from no day; both report today and the day calculated from it.
C18_Witness ==
    /\ eval.check.set /\ eval.command.set
    /\ eval.command.active
    /\ ScrapedDay = None
    /\ eval.details.declaration_date = NoDate
    /\ eval.command.declared_date = strftime(now)
    /\ eval.command.final_day = "1"
    /\ eval.check = eval.command

\* The embed built for an active status with the values v.
ActiveEmbed(v) ==
    create_snow_emergency_embed(
        [active |-> TRUE, source |-> eval.evidence.source,
         day |-> v.final_day, declared_date |-> v.declared_date])

\* C28: whatever the pages gave (a day or none, a declaration date or none),
\* the values the check computes for an active notification and the values
\* !snowstatus computes for an active reply hold a declaration date that is a
\* date, and the embed built from them has its "Declared on" field.
C28_DeclaredDateAlwaysSet ==
    \A v \in {eval.check, eval.command} :
        (v.set /\ v.active) =>
            /\ v.declared_date # NoDate
            /\ ~strptime_raises(v.declared_date)
            /\ ActiveEmbed(v).declared_on = v.declared_date

\* C28 witness: active evidence, no day and no date scraped, at an instant
\* for which today gives no day: both triggers report today as the
\* declaration date, and no day.
C28_Witness ==
    /\ CheckComputed /\ eval.command.set
    /\ ScrapedDay = None
    /\ eval.details.declaration_date = NoDate
    /\ eval.check.declared_date = strftime(now)
    /\ eval.command.declared_date = strftime(now)
    /\ eval.check.final_day = None
    /\ ActiveEmbed(eval.check).declared_on = strftime(now)

(***************************************************************************)
(* Claims about TEST_MODE (Spec).                                          *)
(***************************************************************************)
\* C17: a cycle run from the same stored status with the same inputs under
\* the other value of TEST_MODE stores the same status and sends a message
\* in the same cases, with the same embed (title, day, declaration date,
\* source); the two messages differ only in the "@here" mention of a
\* declared alert, which only the run outside test mode carries.
C17_TestModeOnlyMention ==
    Checked =>
        /\ cycle.twin.status = current_status
        /\ (cycle.twin.message = NoMessage) <=> (cycle.message = NoMessage)
        /\ cycle.twin.message.embed = cycle.message.embed
        /\ cycle.twin.message.content # cycle.message.content =>
               /\ Sent /\ cycle.is_active
               /\ {cycle.twin.message.content, cycle.message.content}
                      = {"@here", None}

\* C17 witness: a declared alert that carries the mention in one mode and
\* not in the other.
C17_Witness ==
    /\ Checked /\ Sent /\ DeclaredAlert
    /\ cycle.twin.status = current_status
    /\ cycle.twin.message.embed = cycle.message.embed
    /\ cycle.message.content = (IF TEST_MODE THEN None ELSE "@here")
    /\ cycle.twin.message.content = (IF TEST_MODE THEN "@here" ELSE None)

(***************************************************************************)
(* Claims about the completion of a check cycle (Spec).                    *)
(***************************************************************************)
\* C15: whatever the two probes and the details scraper do (answer, answer
\* with an error status, raise), a check cycle is never cut short: it ends
\* with the write of last_check, at the instant of the cycle.
C15_CycleReachesLastCheck ==
    cycle.kind # "none" =>
        /\ cycle.kind = "check"
        /\ current_status.last_check = now

\* C15 witness: a cycle in which both probes failed has recorded last_check.
C15_Witness ==
    /\ Checked
    /\ cycle.probes_failed
    /\ current_status.last_check = now

(***************************************************************************)
(* Claims about the coroutines (SpecAsync).                                *)
(***************************************************************************)
\* C16: while a check cycle is suspended between its read of
\* current_status["active"] and its write-back, the status still has the
\* value the cycle read (inactive, the cycle having read a change to
\* active), and no step of another coroutine changes current_status.
C16_NoWriteBetweenReadAndWrite ==
    /\ [](Between => ~current_status.active)
    /\ [][(Between /\ tasks'.check = tasks.check)
             => current_status' = current_status]_vars

\* C16 witness: !snowstatus has found an emergency and built its reply while
\* the check cycle was suspended between its read and its write-back.
C16_Witness ==
    /\ Between
    /\ tasks.command.pc = "send"
    /\ tasks.command.between
    /\ tasks.command.source.ok
    /\ ~current_status.active

\* C26: at most one instance of the loop is ever launched and unfinished,
\* however often on_ready fires: the loop is launched only by a step taken
\* while it is not running and no check cycle is under way, and an on_ready
\* that finds it running changes nothing of the loop or its cycle.
C26_SingleLoop ==
    /\ [](/\ tasks.loops <= 1
          /\ tasks.running <=> (tasks.loops = 1)
          /\ tasks.check.pc \notin {"idle", "aborted"} => tasks.loops = 1)
    /\ [][/\ tasks'.loops > tasks.loops =>
                 /\ ~tasks.running
                 /\ tasks.check.pc \in {"idle", "aborted"}
          /\ (tasks.running /\ tasks'.reconnected /\ ~tasks.reconnected) =>
                 /\ tasks'.loops = tasks.loops
                 /\ tasks'.check = tasks.check
         ]_vars

\* C26 witness: on_ready has fired again while a check cycle was under way,
\* and the one loop goes on with that cycle.
C26_Witness ==
    /\ tasks.reconnected
    /\ tasks.loops = 1
    /\ tasks.check.pc = "details"
    /\ tasks.check.source.ok

\* C20: current_status starts inactive with every other field empty; no
\* step of !snowstatus or !snowhelp changes it; every change of it is a step
\* of the check cycle.
C20_OnlyCheckWrites ==
    /\ current_status.active = FALSE
    /\ current_status.last_check = NoTime
    /\ current_status.details = None
    /\ current_status.day = None
    /\ current_status.source = NoDict
    /\ [][(tasks'.command # tasks.command
               => current_status' = current_status)
           /\ (current_status' # current_status
                  => (/\ tasks'.check # tasks.check
                      /\ tasks.check.pc \in {"snowmpls", "details", "send"}))
         ]_vars

\* C20 witness: !snowstatus has found no emergency and built its reply
\* while the stored status, written by a check cycle, stays active.
C20_Witness ==
    /\ tasks.command.pc = "send"
    /\ tasks.command.reply.title = "No Snow Emergency"
    /\ current_status.active
    /\ current_status.last_check = now
====
